---- MODULE Spec2Model ----
(***************************************************************************)
(* A model of the Deezer client class of src/src/index.js: the session     *)
(* cache (#ensureSession), the requests issued by api and                  *)
(* getAndDecryptTrack, and the stripe cipher loop of getAndDecryptTrack.   *)
(*                                                                         *)
(* The file holds two variants of the class (lines 16-293 and 317-510).    *)
(* The variable `variant` selects which one an instance runs.              *)
(*                                                                         *)
(* JavaScript runs every callback to completion: an action of the model is *)
(* the code between two awaits of one call.                                *)
(***************************************************************************)
EXTENDS Integers, Sequences, FiniteSets, TLC

VARIABLES
    variant,                  \* 1: lines 16-293, 2: lines 317-510
    arl,                      \* #arl
    now,                      \* Date.now()
    ticks,                    \* number of clock advances so far
    currentSessionTimestamp,  \* #currentSessionTimestamp
    sessionID,                \* #sessionID
    apiToken,                 \* #apiToken
    isPremium,                \* #isPremium
    licenseToken,             \* #licenseToken
    assignedBy,               \* history: the call whose exchange last assigned each field
    pc,                       \* per call: where the call is
    sent,                     \* history: the last request issued after #ensureSession
    buffer,                   \* cipher loop: the fetched payload
    blowfishKey,              \* cipher loop: the key
    decryptedBuffer,          \* cipher loop: the output buffer
    i,                        \* cipher loop: the chunk index
    position,                 \* cipher loop: the byte offset
    lpc,                      \* cipher loop: where the loop is
    cipherLog,                \* history: one record per iteration of the loop
    writes,                   \* history: how often each byte of the output was written
    original,                 \* history: the bytes the payload was enciphered from, if any
    blowfishKeyCache,         \* #blowfishKeyCache
    derived,                  \* history: how often the key of each track id was computed
    job,                      \* one getAndDecryptTrack call, stage by stage
    jobs,                     \* concurrent getAndDecryptTrack calls, from the payload fetch on
    entityTypeCache,          \* #entityTypeCache
    lookup                    \* the last get call, step by step

sessionVars == <<currentSessionTimestamp, sessionID, apiToken, isPremium, licenseToken>>
callVars == <<pc, sent>>
cipherVars == <<buffer, blowfishKey, decryptedBuffer, i, position, lpc, cipherLog, writes, original>>
instanceVars == <<arl, now, ticks, sessionVars, assignedBy, callVars>>
pipelineVars == <<blowfishKeyCache, derived, job, jobs>>
entityVars == <<entityTypeCache, lookup>>
vars == <<variant, instanceVars, cipherVars, pipelineVars, entityVars>>

----------------------------------------------------------------------------
(* Bounds of the model. *)

NumCalls == 2
MaxTicks == 1

Calls == 1..NumCalls

----------------------------------------------------------------------------
(* JavaScript values. *)

Null == [tag |-> "null"]
Undefined == [tag |-> "undefined"]
Num(n) == [tag |-> "number", n |-> n]
\* A string the server made up in the exchange of call e (a session id, a token).
Str(s, e) == [tag |-> "string", s |-> s, from |-> e]

IsObject(v) == v.tag = "object"
IsNullish(v) == v.tag \in {"null", "undefined"}
IsDefined(v) == ~IsNullish(v)

\* ToNumber of a timestamp field: null + n is n, 0 + n is n.
ToNumber(v) == IF v.tag = "number" THEN v.n ELSE 0

SESSION_EXPIRE == 60000 * 15

\* A clock reading of a running system: far beyond SESSION_EXPIRE.
StartOfTime == 2 * SESSION_EXPIRE


----------------------------------------------------------------------------
(* The response of the deezer.getUserData exchange, as #request hands it   *)
(* to #ensureSession: a rejection (transport error, or JSON.parse threw),  *)
(* or the parsed JSON value.                                               *)

Options(license_token) == [tag |-> "object", license_token |-> license_token]
User(OPTIONS) == [tag |-> "object", OPTIONS |-> OPTIONS]
Results(SESSION_ID, checkForm, OFFER_NAME, USER) ==
    [tag |-> "object", SESSION_ID |-> SESSION_ID, checkForm |-> checkForm,
     OFFER_NAME |-> OFFER_NAME, USER |-> USER]
Data(results) == [tag |-> "object", results |-> results]

Rejected(why) == [ok |-> FALSE, why |-> why]
Resolved(data) == [ok |-> TRUE, data |-> data]

\* The complete response of the exchange of call e for an account with the given offer.
FullResults(e, offer) ==
    Results(Str("SESSION_ID", e), Str("checkForm", e), offer,
            User(Options(Str("license_token", e))))

\* What the server may answer to the exchange of call e: complete responses, responses
\* lacking one expected field, and bodies of another shape.
UserDataResponses(e) ==
    { Rejected("transport error or unparsable body") } \cup
    { Resolved(d) : d \in
        { Null,
          Data(Undefined),
          Data(FullResults(e, Str("Deezer Free", e))),
          Data(FullResults(e, Str("Deezer Premium", e))),
          Data(FullResults(e, Undefined)),
          Data([FullResults(e, Str("Deezer Free", e)) EXCEPT !.SESSION_ID = Undefined]),
          Data([FullResults(e, Str("Deezer Free", e)) EXCEPT !.checkForm = Undefined]),
          Data([FullResults(e, Str("Deezer Free", e)) EXCEPT !.USER = Undefined]),
          Data([FullResults(e, Str("Deezer Free", e)) EXCEPT !.USER = User(Undefined)]),
          Data([FullResults(e, Str("Deezer Free", e)) EXCEPT !.USER = User(Options(Undefined))]) } }

----------------------------------------------------------------------------
(* The session cache. *)

\* The fields of the instance that make up the session, as one record.
Session ==
    [currentSessionTimestamp |-> currentSessionTimestamp, sessionID |-> sessionID,
     apiToken |-> apiToken, isPremium |-> isPremium, licenseToken |-> licenseToken,
     by |-> assignedBy]

NeverAssigned ==
    [currentSessionTimestamp |-> 0, sessionID |-> 0, apiToken |-> 0,
     isPremium |-> 0, licenseToken |-> 0]

\* As SessionFresh, with >= for >.
SessionFresh_Inclusive(ts, t) == ToNumber(ts) + SESSION_EXPIRE >= t

\* The guard of #ensureSession: the cached session is still good at time t.
SessionFresh(ts, t) == ToNumber(ts) + SESSION_EXPIRE > t

\* results.OFFER_NAME !== "Deezer Free"
IsPremiumOffer(offer) == ~(offer.tag = "string" /\ offer.s = "Deezer Free")

\* The assignments of #ensureSession after its await, run on the response
\* `data` of the exchange of call e at time t. A property read of null or undefined
\* throws and leaves the assignments made so far in place.
EnsureSessionAssign(old, data, t, e, v) ==
    LET dataOk == IsObject(data)
        resultsOk == dataOk /\ IsObject(data.results)
        userOk == resultsOk /\ IsObject(data.results.USER)
                            /\ IsObject(data.results.USER.OPTIONS)
        s1 == [old EXCEPT !.currentSessionTimestamp = Num(t),
                          !.by.currentSessionTimestamp = e]
        s4 == [s1 EXCEPT !.sessionID = data.results.SESSION_ID,
                         !.by.sessionID = e,
                         !.apiToken = data.results.checkForm,
                         !.by.apiToken = e,
                         !.isPremium = IsPremiumOffer(data.results.OFFER_NAME),
                         !.by.isPremium = e]
        s5 == [s4 EXCEPT !.licenseToken = data.results.USER.OPTIONS.license_token,
                         !.by.licenseToken = e]
    IN  IF v = 2 /\ ~dataOk THEN [threw |-> TRUE, session |-> old]
        ELSE IF ~resultsOk THEN [threw |-> TRUE, session |-> s1]
        ELSE IF ~userOk THEN [threw |-> TRUE, session |-> s4]
        ELSE [threw |-> FALSE, session |-> s5]

\* The instance's session fields become those of record s.
StoreSession(s) ==
    /\ currentSessionTimestamp' = s.currentSessionTimestamp
    /\ sessionID' = s.sessionID
    /\ apiToken' = s.apiToken
    /\ isPremium' = s.isPremium
    /\ licenseToken' = s.licenseToken
    /\ assignedBy' = s.by

NoRequest == [type |-> "none"]

----------------------------------------------------------------------------
(* Tracks and the choice of format in getAndDecryptTrack. *)

NaN == [tag |-> "NaN"]

\* Number(v), for the values a size field holds: a number, null or nothing.
Number(v) ==
    IF v.tag = "number" THEN v
    ELSE IF v.tag = "null" THEN Num(0)
    ELSE NaN

\* Whether `if (v)` takes its branch.
Truthy(v) ==
    IF v.tag = "number" THEN v.n # 0
    ELSE v.tag \in {"string", "object"}

Track(SNG_ID, FILESIZE, FILESIZE_FLAC, FILESIZE_MP3_320, FILESIZE_MP3_256, FILESIZE_MP3_128, FILESIZE_MP3_64, FALLBACK) ==
    [tag |-> "object", SNG_ID |-> SNG_ID, TRACK_TOKEN |-> Str("TRACK_TOKEN", SNG_ID),
     FILESIZE |-> FILESIZE, FILESIZE_FLAC |-> FILESIZE_FLAC,
     FILESIZE_MP3_320 |-> FILESIZE_MP3_320, FILESIZE_MP3_256 |-> FILESIZE_MP3_256,
     FILESIZE_MP3_128 |-> FILESIZE_MP3_128, FILESIZE_MP3_64 |-> FILESIZE_MP3_64,
     FALLBACK |-> FALLBACK]

FORMAT_PRIORITIES == <<"MP3_320", "MP3_256", "MP3_128", "MP3_64">>

\* track[`FILESIZE_${format}`]
FileSizeOf(track, format) ==
    CASE format = "MP3_320" -> track.FILESIZE_MP3_320
      [] format = "MP3_256" -> track.FILESIZE_MP3_256
      [] format = "MP3_128" -> track.FILESIZE_MP3_128
      [] format = "MP3_64" -> track.FILESIZE_MP3_64
      [] format = "FLAC" -> track.FILESIZE_FLAC

NoFormat == "null"

\* As FindBestFormat, taking the last usable format of the list.
FindBestFormat_Last(track, flac) ==
    IF flac THEN "FLAC"
    ELSE LET usable == { k \in 1..Len(FORMAT_PRIORITIES) :
                           Truthy(Number(FileSizeOf(track, FORMAT_PRIORITIES[k]))) }
         IN  IF usable = {} THEN NoFormat
             ELSE FORMAT_PRIORITIES[CHOOSE k \in usable : \A j \in usable : k >= j]

\* #findBestFormat: FLAC when asked for, else the first format of the
\* priority list whose size on the track is a non-zero number.
FindBestFormat(track, flac) ==
    IF flac THEN "FLAC"
    ELSE LET usable == { k \in 1..Len(FORMAT_PRIORITIES) :
                           Truthy(Number(FileSizeOf(track, FORMAT_PRIORITIES[k]))) }
         IN  IF usable = {} THEN NoFormat
             ELSE FORMAT_PRIORITIES[CHOOSE k \in usable : \A j \in usable : k <= j]

\* As ResolveTrack, following the fallback of the fallback as well.
ResolveTrack_TwoHops(track) ==
    LET hop(t) == IF ~Truthy(Number(t.FILESIZE)) /\ Truthy(t.FALLBACK)
                  THEN t.FALLBACK ELSE t
    IN  hop(hop(track))

\* The track getAndDecryptTrack goes on with: the fallback when the track
\* has no FILESIZE and carries one.
ResolveTrack(track) ==
    IF ~Truthy(Number(track.FILESIZE)) /\ Truthy(track.FALLBACK)
    THEN track.FALLBACK
    ELSE track

\* As LicensingRequest, without the test of FILESIZE_FLAC.
LicensingRequest_NoFlacCheck(track, flac, premium, license) ==
    LET t == ResolveTrack(track)
        format == FindBestFormat(t, flac)
    IN  IF flac /\ ~premium
        THEN [threw |-> TRUE, error |-> "FLAC is only supported on Deezer Premium accounts"]
        ELSE IF format = NoFormat
        THEN [threw |-> TRUE, error |-> "Audio is unavailable"]
        ELSE [threw |-> FALSE,
              request |-> [type |-> "get_url", license_token |-> license,
                           format |-> format, track_token |-> t.TRACK_TOKEN]]

\* getAndDecryptTrack from the return of #ensureSession to the licensing
\* request: it throws, or issues the request.
LicensingRequest(track, flac, premium, license) ==
    LET t == ResolveTrack(track)
        format == FindBestFormat(t, flac)
    IN  IF flac /\ ~premium
        THEN [threw |-> TRUE, error |-> "FLAC is only supported on Deezer Premium accounts"]
        ELSE IF flac /\ ~Truthy(Number(t.FILESIZE_FLAC))
        THEN [threw |-> TRUE, error |-> "FLAC audio is unavailable"]
        ELSE IF format = NoFormat
        THEN [threw |-> TRUE, error |-> "Audio is unavailable"]
        ELSE [threw |-> FALSE,
              request |-> [type |-> "get_url", license_token |-> license,
                           format |-> format, track_token |-> t.TRACK_TOKEN]]

\* The tracks the concurrent calls are given: one with audio, one without
\* audio that carries a fallback, one without either.
PlainTrack == Track(1, Num(5), Num(9), Num(0), Num(0), Num(5), Num(0), Undefined)
Tracks ==
    { PlainTrack,
      Track(2, Num(0), Num(0), Num(0), Num(0), Num(0), Num(0), PlainTrack),
      Track(3, Undefined, Undefined, Undefined, Undefined, Undefined, Undefined, Undefined) }

----------------------------------------------------------------------------
(* The key cache and the calls of the pipeline, before any call. *)

\* A track id that is no string: createHash("md5").update(trackId) throws.
NoId == 0

\* The ids of the tracks of the model.
TrackIds == 0..9

\* A Map without entries.
EmptyCache == [x \in {} |-> << >>]

\* No call has started.
NoJob == [pc |-> "idle"]

PipelineIdle ==
    /\ blowfishKeyCache = EmptyCache
    /\ derived = [x \in TrackIds |-> 0]
    /\ job = NoJob
    /\ jobs = [c \in Calls |-> NoJob]

----------------------------------------------------------------------------
(* The state after construction. *)

\* No get call yet.
NoLookup == [pc |-> "idle"]

\* No get call has been made on the instance.
EntityIdle ==
    /\ entityTypeCache = EmptyCache
    /\ lookup = NoLookup

Init ==
    /\ variant \in {1, 2}
    /\ arl \in {Null, Str("arl", 0)}
    /\ now = StartOfTime
    /\ ticks = 0
    /\ currentSessionTimestamp = IF variant = 1 THEN Null ELSE Num(0)
    /\ sessionID = Null
    /\ apiToken = Null
    /\ isPremium = FALSE
    /\ licenseToken = Null
    /\ assignedBy = NeverAssigned
    /\ pc = [c \in Calls |-> "idle"]
    /\ sent = NoRequest
    /\ buffer = << >>
    /\ blowfishKey = << >>
    /\ decryptedBuffer = << >>
    /\ i = 0
    /\ position = 0
    /\ lpc = "none"
    /\ cipherLog = << >>
    /\ writes = << >>
    /\ original = << >>
    /\ PipelineIdle
    /\ EntityIdle

----------------------------------------------------------------------------
(* Operations. *)

\* The clock advances.
Tick(d) ==
    /\ ticks < MaxTicks
    /\ now' = now + d
    /\ ticks' = ticks + 1
    /\ UNCHANGED <<variant, entityVars, arl, sessionVars, assignedBy, callVars, cipherVars, pipelineVars>>

\* api(method, body) or getAndDecryptTrack(track, flac) is called: the code
\* up to the first await, which is the same in both. On arguments of the
\* wrong type the call throws; else it runs #ensureSession up to its await,
\* which returns at once on a fresh session ("fresh") and issues the
\* deezer.getUserData request otherwise ("awaitUserData"). Which of the two
\* methods was called shows when the call resumes (ApiRequest, TrackRequest).
\* Calls are numbered in the order they are made.
Call(c, validArgs) ==
    /\ pc[c] = "idle"
    /\ \A d \in Calls : d < c => pc[d] # "idle"
    /\ pc' = [pc EXCEPT ![c] =
                IF ~validArgs THEN "threw"
                ELSE IF SessionFresh(currentSessionTimestamp, now) THEN "fresh"
                ELSE "awaitUserData"]
    /\ UNCHANGED <<variant, entityVars, arl, now, ticks, sessionVars, assignedBy, sent, cipherVars, pipelineVars>>

\* The deezer.getUserData request of call c settles: #ensureSession resumes,
\* and throws or runs its assignments.
UserDataResponse(c, r) ==
    /\ pc[c] = "awaitUserData"
    /\ IF r.ok
       THEN LET a == EnsureSessionAssign(Session, r.data, now, c, variant)
            IN  /\ StoreSession(a.session)
                /\ pc' = [pc EXCEPT ![c] = IF a.threw THEN "threw" ELSE "ensured"]
       ELSE /\ pc' = [pc EXCEPT ![c] = "threw"]
            /\ UNCHANGED <<sessionVars, assignedBy>>
    /\ UNCHANGED <<variant, entityVars, arl, now, ticks, sent, cipherVars, pipelineVars>>

\* The catalogue request api builds from the session fields.
CatalogueRequest(token, sid) == [type |-> "api", api_token |-> token, sid |-> sid]

\* api resumes after #ensureSession and issues the catalogue request.
ApiRequest(c) ==
    /\ pc[c] \in {"fresh", "ensured"}
    /\ sent' = CatalogueRequest(apiToken, sessionID)
    /\ pc' = [pc EXCEPT ![c] = "awaitApi"]
    /\ UNCHANGED <<variant, entityVars, arl, now, ticks, sessionVars, assignedBy, cipherVars, pipelineVars>>

\* The catalogue request of call c settles: api returns or throws.
ApiResponse(c, ok) ==
    /\ pc[c] = "awaitApi"
    /\ pc' = [pc EXCEPT ![c] = IF ok THEN "returned" ELSE "threw"]
    /\ UNCHANGED <<variant, entityVars, arl, now, ticks, sessionVars, assignedBy, sent, cipherVars, pipelineVars>>

\* getAndDecryptTrack resumes after #ensureSession: it throws, or issues the
\* licensing request.
TrackRequest(c, track, flac) ==
    /\ pc[c] \in {"fresh", "ensured"}
    /\ LET l == LicensingRequest(track, flac, isPremium, licenseToken)
       IN  IF l.threw
           THEN /\ pc' = [pc EXCEPT ![c] = "threw"]
                /\ UNCHANGED sent
           ELSE /\ pc' = [pc EXCEPT ![c] = "awaitUrl"]
                /\ sent' = l.request
    /\ UNCHANGED <<variant, entityVars, arl, now, ticks, sessionVars, assignedBy, cipherVars, pipelineVars>>

\* The licensing request of call c settles: without a source URL the call
\* throws, with one it fetches the payload.
UrlResponse(c, hasUrl) ==
    /\ pc[c] = "awaitUrl"
    /\ pc' = [pc EXCEPT ![c] = IF hasUrl THEN "awaitBuffer" ELSE "threw"]
    /\ sent' = IF hasUrl THEN [type |-> "fetch"] ELSE sent
    /\ UNCHANGED <<variant, entityVars, arl, now, ticks, sessionVars, assignedBy, cipherVars, pipelineVars>>

\* The payload fetch of call c settles: the call throws, or decrypts the
\* payload (SpecCipher) and returns.
BufferResponse(c, ok) ==
    /\ pc[c] = "awaitBuffer"
    /\ pc' = [pc EXCEPT ![c] = IF ok THEN "returned" ELSE "threw"]
    /\ UNCHANGED <<variant, entityVars, arl, now, ticks, sessionVars, assignedBy, sent, cipherVars, pipelineVars>>

ClockSteps == {SESSION_EXPIRE - 1, SESSION_EXPIRE}

Next ==
    \/ \E d \in ClockSteps : Tick(d)
    \/ \E c \in Calls, validArgs \in BOOLEAN : Call(c, validArgs)
    \/ \E c \in Calls : \E r \in UserDataResponses(c) : UserDataResponse(c, r)
    \/ \E c \in Calls : ApiRequest(c)
    \/ \E c \in Calls, ok \in BOOLEAN : ApiResponse(c, ok)
    \/ \E c \in Calls, track \in Tracks, flac \in BOOLEAN : TrackRequest(c, track, flac)
    \/ \E c \in Calls, hasUrl \in BOOLEAN : UrlResponse(c, hasUrl)
    \/ \E c \in Calls, ok \in BOOLEAN : BufferResponse(c, ok)

Spec == Init /\ [][Next]_vars

----------------------------------------------------------------------------
(* Buffers are sequences of bytes; offsets count from 0, as in the code.   *)

chunkSize == 2048

\* The fixed initialisation vector.
iv == <<0, 1, 2, 3, 4, 5, 6, 7>>

Min(a, b) == IF a < b THEN a ELSE b

\* A byte of Buffer.allocUnsafe that no write has set: any value at all.
Uninitialized == 0 - 1

\* Buffer.allocUnsafe(n) in variant 1, Buffer.alloc(n) in variant 2.
AllocOutput(n, v) == [p \in 1..n |-> IF v = 1 THEN Uninitialized ELSE 0]

\* buf.subarray(start, end): the bytes from start up to end, within buf.
Subarray(buf, start, end) ==
    [j \in 1..(Min(end, Len(buf)) - start) |-> buf[start + j]]

\* Buffer.alloc(n) followed by buf.copy(chunk, 0, start, start + n): the
\* bytes of buf from start, and zeros where buf has ended.
AllocAndCopy(buf, start, n) ==
    [j \in 1..n |-> IF start + j <= Len(buf) THEN buf[start + j] ELSE 0]

\* bytes.toString("binary"): one character per byte, its code the byte.
ToBinaryString(bytes) == [j \in 1..Len(bytes) |-> bytes[j]]

\* As FromBinaryString, with the encoding "ascii": the low seven bits.
FromBinaryString_Ascii(chars) == [j \in 1..Len(chars) |-> chars[j] % 128]

\* The bytes write(string, ..., "binary") stores: the low byte of each code.
FromBinaryString(chars) == [j \in 1..Len(chars) |-> chars[j] % 256]

\* As BufferCopy, without the offset: source.copy(target).
BufferCopy_AtStart(source, target, targetStart) ==
    LET n == Min(Len(source), Len(target))
        written == 1..n
    IN  [bytes |-> [p \in 1..Len(target) |->
                      IF p \in written THEN source[p] ELSE target[p]],
         written |-> written]

\* source.copy(target, targetStart), and target.write(source, targetStart,
\* source.length, "binary") of an encoded string: the bytes of source that
\* fit are stored from targetStart on. `written` are the places stored to.
BufferCopy(source, target, targetStart) ==
    LET n == Min(Len(source), Len(target) - targetStart)
        written == (targetStart + 1)..(targetStart + n)
    IN  [bytes |-> [p \in 1..Len(target) |->
                      IF p \in written THEN source[p - targetStart] ELSE target[p]],
         written |-> written]

RECURSIVE Xor(_, _)
\* a ^ b on bytes.
Xor(a, b) ==
    IF a = 0 THEN b
    ELSE IF b = 0 THEN a
    ELSE 2 * Xor(a \div 2, b \div 2) + ((a + b) % 2)

\* The block cipher of blowfish-js, decrypt direction, byte j of the data:
\* a stand-in that, like Blowfish, maps each block of Len(iv) bytes by a
\* permutation of the blocks that the key selects. Data that ends within a
\* block is taken as followed by zeros.
DecipherByte(key, data, j) ==
    LET n == Len(iv)
        block == (j - 1) \div n
        m == (j - 1) % n
        at == n * block + (n - m)
        src == IF at <= Len(data) THEN data[at] ELSE 0
    IN  (src + 512 - key[m + 1] - key[m + 1 + n]) % 256

\* blowfish.cbc(key, iv, data, true): chained-block decryption. Each block
\* is deciphered and combined with the block before it, the first one with
\* the initialisation vector. The result is as long as the data.
BlowfishCbc(key, ivec, data) ==
    [j \in 1..Len(data) |->
        Xor(DecipherByte(key, data, j),
            IF j <= Len(ivec) THEN ivec[j] ELSE data[j - Len(ivec)])]

----------------------------------------------------------------------------
(* The cipher loop of getAndDecryptTrack. *)

\* As CurrentChunkSize, without the chunk size: all that is left.
CurrentChunkSize_Remaining(length, pos) == length - pos

\* As CurrentChunkSize, without the end of the payload: chunkSize.
CurrentChunkSize_Full(length, pos) == chunkSize

\* Math.min(chunkSize, buffer.length - position)
CurrentChunkSize(length, pos) == Min(chunkSize, length - pos)

\* As ChunkIsPlain, without the test of the size: i % 3.
ChunkIsPlain_IndexOnly(index, size) == index % 3 # 0

\* i % 3 || currentChunkSize < chunkSize: the chunk is copied as it is.
ChunkIsPlain(index, size) == (index % 3 # 0) \/ size < chunkSize

\* The payloads and keys the loop is run on.
MaxFullChunks == 4

PayloadByte(seed, p) == (p + (p \div 256) + seed) % 256
Payload(length, seed) == [p \in 1..length |-> PayloadByte(seed, p - 1)]
PayloadLengths ==
    { n * chunkSize + r : n \in 0..MaxFullChunks, r \in {0, 1, chunkSize - 1} }
Payloads == { Payload(length, seed) : length \in PayloadLengths, seed \in {0, 101} }
Keys == { [j \in 1..16 |-> (j * s) % 128] : s \in {3, 7} }

\* getAndDecryptTrack has the payload and the key of a track.
InitCipher ==
    /\ variant \in {1, 2}
    /\ arl = Null
    /\ now = StartOfTime
    /\ ticks = 0
    /\ currentSessionTimestamp = IF variant = 1 THEN Null ELSE Num(0)
    /\ sessionID = Null
    /\ apiToken = Null
    /\ isPremium = FALSE
    /\ licenseToken = Null
    /\ assignedBy = NeverAssigned
    /\ pc = [c \in Calls |-> "idle"]
    /\ sent = NoRequest
    /\ buffer \in Payloads
    /\ blowfishKey \in Keys
    /\ decryptedBuffer = << >>
    /\ i = 0
    /\ position = 0
    /\ lpc = "start"
    /\ cipherLog = << >>
    /\ writes = << >>
    /\ original = << >>
    /\ PipelineIdle
    /\ EntityIdle

\* The output buffer is allocated and the loop variables are set.
CipherStart ==
    /\ lpc = "start"
    /\ decryptedBuffer' = AllocOutput(Len(buffer), variant)
    /\ writes' = [p \in 1..Len(buffer) |-> 0]
    /\ i' = 0
    /\ position' = 0
    /\ lpc' = "loop"
    /\ UNCHANGED <<variant, entityVars, instanceVars, pipelineVars, buffer, blowfishKey, cipherLog, original>>

\* One iteration of the loop.
LoopIteration ==
    /\ lpc = "loop"
    /\ position < Len(buffer)
    /\ \E currentChunkSize \in {CurrentChunkSize(Len(buffer), position)} :
       \E chunk \in {IF variant = 1
                     THEN Subarray(buffer, position, position + currentChunkSize)
                     ELSE AllocAndCopy(buffer, position, currentChunkSize)} :
       \E plain \in {ChunkIsPlain(i, currentChunkSize)} :
       \E decryptedChunk \in {IF plain THEN chunk
                              ELSE BlowfishCbc(blowfishKey, iv, chunk)} :
       \E source \in {IF variant = 1 THEN decryptedChunk
                      ELSE FromBinaryString(ToBinaryString(decryptedChunk))} :
       \E copy \in {BufferCopy(source, decryptedBuffer, position)} :
           /\ decryptedBuffer' = copy.bytes
           /\ writes' = [p \in 1..Len(writes) |->
                           IF p \in copy.written THEN writes[p] + 1 ELSE writes[p]]
           /\ cipherLog' = Append(cipherLog,
                                  [index |-> i, offset |-> position,
                                   size |-> Len(chunk), ciphered |-> ~plain])
           /\ position' = position + currentChunkSize
           /\ i' = i + 1
    /\ UNCHANGED <<variant, entityVars, instanceVars, pipelineVars, buffer, blowfishKey, lpc, original>>

\* The loop ends and getAndDecryptTrack returns decryptedBuffer.
CipherReturn ==
    /\ lpc = "loop"
    /\ ~(position < Len(buffer))
    /\ lpc' = "returned"
    /\ UNCHANGED <<variant, entityVars, instanceVars, pipelineVars, buffer, blowfishKey, decryptedBuffer,
                   i, position, cipherLog, writes, original>>

NextCipher ==
    \/ CipherStart
    \/ LoopIteration
    \/ CipherReturn

SpecCipher == InitCipher /\ [][NextCipher]_vars

\* The loop on payloads of every length, with one content and one key.
InitLoop ==
    /\ InitCipher
    /\ buffer \in { Payload(length, 0) : length \in PayloadLengths }
    /\ blowfishKey = [j \in 1..16 |-> (j * 3) % 128]

\* The loop is synchronous code: once entered, it runs on until it returns.
SpecCipherFair == InitLoop /\ [][NextCipher]_vars /\ WF_vars(NextCipher)

----------------------------------------------------------------------------
(* The key of a track. *)

\* Deezer.#CBC_KEY, "g4el58wc0zvf9na1", as character codes.
CBC_KEY == <<103, 52, 101, 108, 53, 56, 119, 99, 48, 122, 118, 102, 57, 110, 97, 49>>

\* The character code of a hexadecimal digit.
HexDigit(d) == IF d < 10 THEN 48 + d ELSE 87 + d

\* createHash("md5").update(trackId).digest("hex"): 32 hexadecimal digits
\* that depend on the id alone; a stand-in for the digest.
Md5Hex(trackId) == [j \in 1..32 |-> HexDigit((trackId * (j + 6) + j * j + (trackId \div 2) * j
                           + (j \div 17) * (3 * trackId + 5)) % 16)]

\* As DeriveKey, with sums in place of the exclusive or.
DeriveKey_Sum(trackId) ==
    CHOOSE key \in
      { [j \in 1..Len(CBC_KEY) |-> md5[j] + md5[j + Len(CBC_KEY)] + CBC_KEY[j]] :
          md5 \in { Md5Hex(trackId) } } : TRUE

\* The key string: character j is md5[j] ^ md5[j + 16] ^ CBC_KEY[j]; and
\* blowfish.key of it, which the cipher of the model takes as these bytes.
DeriveKey(trackId) ==
    CHOOSE key \in
      { [j \in 1..Len(CBC_KEY) |-> Xor(Xor(md5[j], md5[j + Len(CBC_KEY)]), CBC_KEY[j])] :
          md5 \in { Md5Hex(trackId) } } : TRUE

\* As KeyLookup, taking any entry of the cache.
KeyLookup_AnyEntry(cache, trackId, v) ==
    IF v = 1 /\ DOMAIN cache # {}
    THEN [hit |-> TRUE, key |-> cache[CHOOSE x \in DOMAIN cache : TRUE]]
    ELSE [hit |-> FALSE]

\* this.#blowfishKeyCache.has(trackId) and get(trackId); the second variant
\* has no cache.
KeyLookup(cache, trackId, v) ==
    IF v = 1 /\ trackId \in DOMAIN cache
    THEN [hit |-> TRUE, key |-> cache[trackId]]
    ELSE [hit |-> FALSE]

\* #getBlowfishKey(trackId) on the cache (second variant: the derivation in
\* getAndDecryptTrack): it throws, or returns the key, with the cache and
\* the count of derivations after it.
GetBlowfishKey(cache, count, trackId, v) ==
    LET found == KeyLookup(cache, trackId, v)
    IN  IF found.hit
        THEN [threw |-> FALSE, key |-> found.key, cache |-> cache, count |-> count]
        ELSE IF trackId = NoId
        THEN [threw |-> TRUE, key |-> << >>, cache |-> cache, count |-> count]
        ELSE [threw |-> FALSE, key |-> DeriveKey(trackId),
              cache |-> IF v = 1
                        THEN [x \in DOMAIN cache \cup {trackId} |->
                                IF x = trackId THEN DeriveKey(trackId) ELSE cache[x]]
                        ELSE cache,
              count |-> [count EXCEPT ![trackId] = @ + 1]]

\* Key derivations on one instance, one after the other, for the track ids
\* 1..MaxKeyId.
MaxKeyId == 24

DeriveIds == 1..MaxKeyId

InitDerive ==
    /\ variant \in {1, 2}
    /\ arl = Null
    /\ now = StartOfTime
    /\ ticks = 0
    /\ currentSessionTimestamp = IF variant = 1 THEN Null ELSE Num(0)
    /\ sessionID = Null
    /\ apiToken = Null
    /\ isPremium = FALSE
    /\ licenseToken = Null
    /\ assignedBy = NeverAssigned
    /\ pc = [c \in Calls |-> "idle"]
    /\ sent = NoRequest
    /\ buffer = << >>
    /\ blowfishKey = << >>
    /\ decryptedBuffer = << >>
    /\ i = 0
    /\ position = 0
    /\ lpc = "none"
    /\ cipherLog = << >>
    /\ writes = << >>
    /\ original = << >>
    /\ blowfishKeyCache = EmptyCache
    /\ derived = [x \in {NoId} \cup DeriveIds |-> 0]
    /\ job = [pc |-> "idle", id |-> NoId, n |-> 0]
    /\ jobs = [c \in Calls |-> NoJob]
    /\ EntityIdle

\* const blowfishKey = this.#getBlowfishKey(track.SNG_ID), in one call
\* after another, at most NumCalls of them.
GetKey(trackId) ==
    /\ job.n < NumCalls
    /\ \E g \in {GetBlowfishKey(blowfishKeyCache, derived, trackId, variant)} :
          /\ ~g.threw
          /\ blowfishKey' = g.key
          /\ blowfishKeyCache' = g.cache
          /\ derived' = g.count
    /\ job' = [pc |-> "derived", id |-> trackId, n |-> job.n + 1]
    /\ UNCHANGED <<variant, entityVars, instanceVars, jobs, buffer, decryptedBuffer, i, position, lpc,
                   cipherLog, writes, original>>

NextDerive == \E trackId \in DeriveIds : GetKey(trackId)

SpecDerive == InitDerive /\ [][NextDerive]_vars

----------------------------------------------------------------------------
(* The stripe encryption that the payloads of the server have undergone:   *)
(* the inverse of the block cipher, applied to every third chunk that is   *)
(* full.                                                                    *)

\* The inverse of the block cipher of DecipherByte on one block x.
EncipherBlock(key, x) ==
    [q \in 1..Len(iv) |->
        (x[Len(iv) + 1 - q] + key[Len(iv) + 1 - q] + key[2 * Len(iv) + 1 - q]) % 256]

\* CBC encryption of the blocks from..(to - 1) of data; prev is the
\* enciphered block before them, or the IV.
RECURSIVE EncryptRun(_, _, _, _, _)
EncryptRun(key, prev, data, from, to) ==
    IF from >= to THEN << >>
    ELSE CHOOSE r \in
           { c \o EncryptRun(key, c, data, nxt, to) :
               c \in { EncipherBlock(key, x) :
                         x \in { [q \in 1..Len(iv) |-> Xor(data[Len(iv) * from + q], prev[q])] } },
               nxt \in { from + 1 } } : TRUE

\* The last block of bytes, or prev if there is none.
LastBlock(bytes, prev) ==
    IF Len(bytes) = 0 THEN prev
    ELSE [q \in 1..Len(iv) |-> bytes[Len(bytes) - Len(iv) + q]]

\* CBC encryption of data, in runs of 2 * Len(iv) blocks, from run g on.
RECURSIVE EncryptRuns(_, _, _, _, _)
EncryptRuns(key, prev, data, g, done) ==
    IF Len(done) >= Len(data) THEN done
    ELSE CHOOSE r \in
           { EncryptRuns(key, LastBlock(run, prev), data, nxt, done \o run) :
               run \in { EncryptRun(key, prev, data, 2 * Len(iv) * g,
                                    Min(2 * Len(iv) * (g + 1), Len(data) \div Len(iv))) },
               nxt \in { g + 1 } } : TRUE

\* The inverse of BlowfishCbc on data of whole blocks.
BlowfishCbcEncrypt(key, ivec, data) == EncryptRuns(key, ivec, data, 0, << >>)

\* encrypt(B, K): the chunks with k mod 3 = 0 and 2048 bytes are enciphered,
\* each from the fixed IV; the others are left as they are.
StripeEncrypt(B, K) ==
    CHOOSE r \in
      { [p \in 1..Len(B) |-> enc[(p - 1) \div chunkSize][((p - 1) % chunkSize) + 1]] :
          enc \in { [k \in 0..((Len(B) + chunkSize - 1) \div chunkSize) - 1 |->
                       IF k % 3 = 0 /\ Len(B) - chunkSize * k >= chunkSize
                       THEN CHOOSE c \in
                              { BlowfishCbcEncrypt(K, iv, d) :
                                  d \in { Subarray(B, chunkSize * k, chunkSize * (k + 1)) } } : TRUE
                       ELSE Subarray(B, chunkSize * k, chunkSize * (k + 1))] } } : TRUE

\* getAndDecryptTrack has a payload that is the encryption of some bytes.
InitRoundTrip ==
    /\ arl = Null
    /\ now = StartOfTime
    /\ ticks = 0
    /\ sessionID = Null
    /\ apiToken = Null
    /\ isPremium = FALSE
    /\ licenseToken = Null
    /\ assignedBy = NeverAssigned
    /\ pc = [c \in Calls |-> "idle"]
    /\ sent = NoRequest
    /\ original \in Payloads
    /\ blowfishKey \in Keys
    /\ buffer = StripeEncrypt(original, blowfishKey)
    /\ variant \in {1, 2}
    /\ currentSessionTimestamp = IF variant = 1 THEN Null ELSE Num(0)
    /\ decryptedBuffer = << >>
    /\ i = 0
    /\ position = 0
    /\ lpc = "start"
    /\ cipherLog = << >>
    /\ writes = << >>
    /\ PipelineIdle
    /\ EntityIdle

SpecRoundTrip == InitRoundTrip /\ [][NextCipher]_vars

----------------------------------------------------------------------------
(* One getAndDecryptTrack call, stage by stage. *)

\* The tracks the call is given.
\* One whose best format is MP3_256 and that has no FLAC.
Mp3Track == Track(4, Num(7), Num(0), Num(0), Num(5), Num(9), Undefined, Undefined)
\* One without any size that carries Mp3Track as fallback.
EmptyTrack == Track(5, Num(0), Num(0), Num(0), Num(0), Num(0), Num(0), Mp3Track)
\* One without FILESIZE that has a size for MP3_128, with a fallback.
NoFilesizeTrack == Track(6, Num(0), Num(0), Num(0), Num(0), Num(3), Num(0), PlainTrack)
\* One with FILESIZE and no size for any format, with a fallback.
FilesizeOnlyTrack == Track(7, Num(8), Num(0), Num(0), Num(0), Num(0), Num(0), PlainTrack)
\* One without any size whose fallback carries a fallback itself.
ChainTrack == Track(9, Num(0), Undefined, Undefined, Undefined, Undefined, Undefined, NoFilesizeTrack)
\* One without any size and without fallback.
BareTrack == Track(3, Undefined, Undefined, Undefined, Undefined, Undefined, Undefined, Undefined)
\* One whose SNG_ID is no string.
NoIdTrack == Track(NoId, Num(2), Num(0), Num(0), Num(0), Num(0), Num(2), Undefined)

PipelineTracks ==
    { PlainTrack, Mp3Track, EmptyTrack, NoFilesizeTrack, FilesizeOnlyTrack,
      ChainTrack, BareTrack, NoIdTrack }

\* The body of the get_url response, as far as getAndDecryptTrack reads it:
\* data?.data?.[0]?.media?.[0]?.sources?.[0]?.url and
\* data?.errors?.[0]?.message.
UrlData(url, message) == [tag |-> "object", url |-> url, message |-> message]

UrlResponses ==
    { Rejected("transport error or unparsable body"), Resolved(Null) } \cup
    { Resolved(UrlData(url, message)) :
        url \in {Str("https://source", 0), Undefined},
        message \in {Str("upstream message", 0), Undefined} }

\* The url of the optional chain: undefined when a link of it is missing.
SourceUrl(data) == IF IsObject(data) THEN data.url ELSE Undefined

\* As SourceErrorMessage, without the upstream message.
SourceErrorMessage_Unknown(data) == "Unknown error"

\* data?.errors?.[0]?.message ?? "Unknown error"
SourceErrorMessage(data) ==
    IF IsObject(data) /\ IsDefined(data.message) THEN data.message.s ELSE "Unknown error"

\* What the payload fetch may give.
BufferResponses ==
    { Rejected("transport error") } \cup
    { Resolved(Payload(length, 0)) : length \in {0, chunkSize + 1} }

\* The call of the pipeline is the last call made on the instance.
JobCall == NumCalls

\* The session fields right after construction.
InitialSession(v) ==
    [currentSessionTimestamp |-> IF v = 1 THEN Null ELSE Num(0), sessionID |-> Null,
     apiToken |-> Null, isPremium |-> FALSE, licenseToken |-> Null,
     by |-> NeverAssigned]

\* The sessions the call may find: none, or the session of a complete
\* exchange of an earlier call, for a free or a premium account.
FoundSessions(v) ==
    { InitialSession(v) } \cup
    { EnsureSessionAssign(InitialSession(v), Data(FullResults(1, Str(offer, 1))),
                          StartOfTime, 1, v).session :
        offer \in {"Deezer Free", "Deezer Premium"} }

InitTrack ==
    /\ variant \in {1, 2}
    /\ arl = Str("arl", 0)
    /\ now = StartOfTime
    /\ ticks = 0
    /\ \E s \in FoundSessions(variant) :
          /\ currentSessionTimestamp = s.currentSessionTimestamp
          /\ sessionID = s.sessionID
          /\ apiToken = s.apiToken
          /\ isPremium = s.isPremium
          /\ licenseToken = s.licenseToken
          /\ assignedBy = s.by
    /\ pc = [c \in Calls |-> "idle"]
    /\ sent = NoRequest
    /\ buffer = << >>
    /\ blowfishKey = << >>
    /\ decryptedBuffer = << >>
    /\ i = 0
    /\ position = 0
    /\ lpc = "none"
    /\ cipherLog = << >>
    /\ writes = << >>
    /\ original = << >>
    /\ PipelineIdle
    /\ EntityIdle

\* An error the call ends in.
Thrown(stage, message) == [stage |-> stage, message |-> message]
NoError == Thrown("none", "")

\* The call as it starts: nothing requested, no stage run.
StartJob(track, flac) ==
    [pc |-> "idle", track |-> track, flac |-> flac, resolved |-> Undefined,
     requests |-> << >>, stages |-> << >>, error |-> NoError,
     answer |-> [got |-> FALSE], keyOf |-> {}, result |-> << >>]

\* As Fail, with one more try: the last request of the call is issued
\* again and the call waits for it, once.
Fail_Retry(j, stage, message) ==
    IF j.requests # << >> /\ Len(j.requests) < 4
    THEN [j EXCEPT !.requests = Append(@, j.requests[Len(j.requests)])]
    ELSE [j EXCEPT !.pc = "threw", !.error = Thrown(stage, message)]

\* As Fail, with the error swallowed: the call goes on.
Fail_GoOn(j, stage, message) == [j EXCEPT !.error = Thrown(stage, message)]

\* The call fails in a stage.
Fail(j, stage, message) ==
    [j EXCEPT !.pc = "threw", !.error = Thrown(stage, message)]

\* getAndDecryptTrack(track, flac) up to its first await: the check of the
\* argument and #ensureSession up to its await.
TrackCall(track, flac) ==
    /\ job.pc = "idle"
    /\ job' = IF ~IsObject(track)
              THEN Fail(StartJob(track, flac), "argument", "track must be an object")
              ELSE IF SessionFresh(currentSessionTimestamp, now)
              THEN [StartJob(track, flac) EXCEPT !.pc = "fresh", !.stages = <<"session">>]
              ELSE [StartJob(track, flac) EXCEPT
                      !.pc = "awaitUserData", !.stages = <<"session">>,
                      !.requests = <<[type |-> "getUserData"]>>]
    /\ UNCHANGED <<variant, entityVars, instanceVars, cipherVars, blowfishKeyCache, derived, jobs>>

\* The deezer.getUserData request of the call settles.
TrackUserData(r) ==
    /\ job.pc = "awaitUserData"
    /\ IF r.ok
       THEN LET a == EnsureSessionAssign(Session, r.data, now, JobCall, variant)
            IN  /\ StoreSession(a.session)
                /\ job' = IF a.threw
                          THEN Fail(job, "session", "TypeError")
                          ELSE [job EXCEPT !.pc = "ensured"]
       ELSE /\ job' = Fail(job, "session", r.why)
            /\ UNCHANGED <<sessionVars, assignedBy>>
    /\ UNCHANGED <<variant, entityVars, arl, now, ticks, callVars, cipherVars,
                   blowfishKeyCache, derived, jobs>>

\* The call resumes after #ensureSession: the fallback, the checks of flac,
\* the choice of format and the licensing request.
TrackResolve ==
    /\ job.pc \in {"fresh", "ensured"}
    /\ LET l == LicensingRequest(job.track, job.flac, isPremium, licenseToken)
           j == [job EXCEPT !.resolved = ResolveTrack(job.track),
                            !.stages = Append(@, "resolve")]
       IN  job' = IF l.threw
                  THEN Fail(j, "resolve", l.error)
                  ELSE [j EXCEPT !.pc = "awaitUrl",
                                 !.requests = Append(@, l.request)]
    /\ UNCHANGED <<variant, entityVars, instanceVars, cipherVars, blowfishKeyCache, derived, jobs>>

\* The licensing request settles: without a source URL the call throws,
\* with one it fetches the payload.
TrackUrl(r) ==
    /\ job.pc = "awaitUrl"
    /\ job' = IF ~r.ok THEN Fail(job, "resolve", r.why)
              ELSE IF ~Truthy(SourceUrl(r.data))
              THEN Fail([job EXCEPT !.answer = [got |-> TRUE, data |-> r.data]],
                        "source", SourceErrorMessage(r.data))
              ELSE [job EXCEPT !.pc = "awaitBuffer",
                               !.answer = [got |-> TRUE, data |-> r.data],
                               !.stages = Append(@, "fetch"),
                               !.requests = Append(@, [type |-> "fetch",
                                                       url |-> SourceUrl(r.data)])]
    /\ UNCHANGED <<variant, entityVars, instanceVars, cipherVars, blowfishKeyCache, derived, jobs>>

\* The payload fetch settles: the call throws, or derives the key of the
\* track and enters the cipher loop.
TrackBuffer(r) ==
    /\ job.pc = "awaitBuffer"
    /\ IF ~r.ok
       THEN /\ job' = Fail(job, "fetch", r.why)
            /\ UNCHANGED <<cipherVars, blowfishKeyCache, derived>>
       ELSE LET g == GetBlowfishKey(blowfishKeyCache, derived, job.resolved.SNG_ID, variant)
                j == [job EXCEPT !.stages = Append(@, "key"),
                                 !.keyOf = {job.resolved.SNG_ID}]
            IN  IF g.threw
                THEN /\ job' = Fail(j, "key", "TypeError")
                     /\ UNCHANGED <<cipherVars, blowfishKeyCache, derived>>
                ELSE /\ job' = [j EXCEPT !.pc = "decrypting",
                                         !.stages = Append(@, "decrypt")]
                     /\ blowfishKeyCache' = g.cache
                     /\ derived' = g.count
                     /\ buffer' = r.data
                     /\ blowfishKey' = g.key
                     /\ lpc' = "start"
                     /\ UNCHANGED <<decryptedBuffer, i, position, cipherLog, writes, original>>
    /\ UNCHANGED <<variant, entityVars, instanceVars, jobs>>

\* The cipher loop has ended: the call returns decryptedBuffer.
TrackReturn ==
    /\ job.pc = "decrypting"
    /\ lpc = "returned"
    /\ job' = [job EXCEPT !.pc = "returned", !.result = decryptedBuffer]
    /\ UNCHANGED <<variant, entityVars, instanceVars, cipherVars, blowfishKeyCache, derived, jobs>>

NextTrack ==
    \/ \E track \in PipelineTracks \cup {Null}, flac \in BOOLEAN : TrackCall(track, flac)
    \/ \E r \in UserDataResponses(JobCall) : TrackUserData(r)
    \/ TrackResolve
    \/ \E r \in UrlResponses : TrackUrl(r)
    \/ \E r \in BufferResponses : TrackBuffer(r)
    \/ CipherStart
    \/ LoopIteration
    \/ CipherReturn
    \/ TrackReturn

SpecTrack == InitTrack /\ [][NextTrack]_vars

----------------------------------------------------------------------------
(* Concurrent getAndDecryptTrack calls, from the payload fetch on: the     *)
(* stages before it neither read nor write the key cache or the locals of *)
(* the loop. The loop has no await: a call that has entered it returns     *)
(* before any other callback runs.                                         *)

\* As DecryptChunk, with the chain carried across the chunks: the vector of
\* a chunk is the last block of the payload before it.
DecryptChunk_Chained(buf, key, v, k) ==
    CHOOSE r \in
      { IF ChunkIsPlain(k, Len(c)) THEN c
        ELSE BlowfishCbc(key,
                         IF k = 0 THEN iv
                         ELSE Subarray(buf, chunkSize * k - Len(iv), chunkSize * k),
                         c) :
          c \in { Subarray(buf, chunkSize * k,
                           chunkSize * k + CurrentChunkSize(Len(buf), chunkSize * k)) } } : TRUE

\* Chunk k of the output of the loop for a payload, as the loop body
\* computes it.
DecryptChunk(buf, key, v, k) ==
    CHOOSE r \in
      { IF v = 1 THEN d ELSE FromBinaryString(ToBinaryString(d)) :
          d \in { IF ChunkIsPlain(k, Len(c)) THEN c ELSE BlowfishCbc(key, iv, c) :
                    c \in { IF v = 1
                            THEN Subarray(buf, chunkSize * k,
                                          chunkSize * k + CurrentChunkSize(Len(buf), chunkSize * k))
                            ELSE AllocAndCopy(buf, chunkSize * k,
                                              CurrentChunkSize(Len(buf), chunkSize * k)) } } } : TRUE

\* The buffer the loop returns for a payload and a key when run alone.
StripeDecrypt(buf, key, v) ==
    CHOOSE r \in
      { [p \in 1..Len(buf) |-> out[(p - 1) \div chunkSize][((p - 1) % chunkSize) + 1]] :
          out \in { [k \in 0..((Len(buf) + chunkSize - 1) \div chunkSize) - 1 |->
                       DecryptChunk(buf, key, v, k)] } } : TRUE

\* The ids of the tracks of the concurrent calls, and their payloads: one
\* chunk that is deciphered and one byte more.
KeyIds == {PlainTrack.SNG_ID, Mp3Track.SNG_ID}
Seeds == {0, 101}
JobPayload(seed) == Payload(chunkSize + 1, seed)

InitJobs ==
    /\ variant \in {1, 2}
    /\ arl = Null
    /\ now = StartOfTime
    /\ ticks = 0
    /\ currentSessionTimestamp = IF variant = 1 THEN Null ELSE Num(0)
    /\ sessionID = Null
    /\ apiToken = Null
    /\ isPremium = FALSE
    /\ licenseToken = Null
    /\ assignedBy = NeverAssigned
    /\ pc = [c \in Calls |-> "idle"]
    /\ sent = NoRequest
    /\ buffer = << >>
    /\ blowfishKey = << >>
    /\ decryptedBuffer = << >>
    /\ i = 0
    /\ position = 0
    /\ lpc = "none"
    /\ cipherLog = << >>
    /\ writes = << >>
    /\ original = << >>
    /\ PipelineIdle
    /\ EntityIdle

\* Call c, for a track whose resolved id is trackId, fetches the payload.
JobFetch(c, trackId) ==
    /\ jobs[c].pc = "idle"
    /\ lpc = "none"
    /\ jobs' = [jobs EXCEPT ![c] = [pc |-> "awaitBuffer", id |-> trackId, seed |-> 0,
                                   key |-> << >>, result |-> << >>]]
    /\ UNCHANGED <<variant, entityVars, instanceVars, cipherVars, blowfishKeyCache, derived, job>>

\* The payload fetch of call c settles with a payload: the call gets the
\* key of its track and enters the cipher loop.
JobBuffer(c, seed) ==
    /\ jobs[c].pc = "awaitBuffer"
    /\ lpc = "none"
    /\ \E g \in {GetBlowfishKey(blowfishKeyCache, derived, jobs[c].id, variant)} :
          /\ ~g.threw
          /\ blowfishKeyCache' = g.cache
          /\ derived' = g.count
          /\ blowfishKey' = g.key
          /\ jobs' = [jobs EXCEPT ![c].pc = "decrypting", ![c].seed = seed, ![c].key = g.key]
    /\ buffer' = JobPayload(seed)
    /\ lpc' = "start"
    /\ cipherLog' = << >>
    /\ UNCHANGED <<variant, entityVars, instanceVars, job, decryptedBuffer, i, position, writes, original>>

\* The loop of call c has ended: the call returns decryptedBuffer, and its
\* locals are gone.
JobReturn(c) ==
    /\ jobs[c].pc = "decrypting"
    /\ lpc = "returned"
    /\ jobs' = [jobs EXCEPT ![c].pc = "returned", ![c].result = decryptedBuffer]
    /\ buffer' = << >>
    /\ blowfishKey' = << >>
    /\ decryptedBuffer' = << >>
    /\ i' = 0
    /\ position' = 0
    /\ lpc' = "none"
    /\ cipherLog' = << >>
    /\ writes' = << >>
    /\ UNCHANGED <<variant, entityVars, instanceVars, original, blowfishKeyCache, derived, job>>

NextJobs ==
    \/ \E c \in Calls, trackId \in KeyIds : JobFetch(c, trackId)
    \/ \E c \in Calls, seed \in Seeds : JobBuffer(c, seed)
    \/ CipherStart
    \/ LoopIteration
    \/ CipherReturn
    \/ \E c \in Calls : JobReturn(c)

SpecJobs == InitJobs /\ [][NextJobs]_vars

----------------------------------------------------------------------------
(* get(idOrURL, type): the entity type, the id and the catalogue request.  *)
(* Strings are sequences of characters.                                     *)

\* A JavaScript string with its characters.
Text(chars) == [tag |-> "string", chars |-> chars]

UpperCase == <<"A", "B", "C", "D", "E", "F", "G", "H", "I", "J", "K", "L", "M", "N", "O", "P", "Q", "R", "S", "T", "U", "V", "W", "X", "Y", "Z">>
LowerCase == <<"a", "b", "c", "d", "e", "f", "g", "h", "i", "j", "k", "l", "m", "n", "o", "p", "q", "r", "s", "t", "u", "v", "w", "x", "y", "z">>
Digits == {"0", "1", "2", "3", "4", "5", "6", "7", "8", "9"}

\* s.toLowerCase()
ToLowerCase(chars) ==
    [k \in 1..Len(chars) |->
        IF \E n \in 1..Len(UpperCase) : UpperCase[n] = chars[k]
        THEN LowerCase[CHOOSE n \in 1..Len(UpperCase) : UpperCase[n] = chars[k]]
        ELSE chars[k]]

RECURSIVE StripSlashes(_)
\* while (cleanURL.endsWith("/")) cleanURL = cleanURL.slice(0, -1), and
\* idOrURL.replace(/\/+$/, "")
StripSlashes(chars) ==
    IF chars # << >> /\ chars[Len(chars)] = "/"
    THEN StripSlashes(SubSeq(chars, 1, Len(chars) - 1))
    ELSE chars

\* s.includes(e)
Includes(chars, e) ==
    \E k \in 1..(Len(chars) - Len(e) + 1) : SubSeq(chars, k, k + Len(e) - 1) = e

\* s.split("/").pop(): what follows the last "/", or all of s.
LastSegment(chars) ==
    LET slashes == { k \in 1..Len(chars) : chars[k] = "/" }
    IN  IF slashes = {} THEN chars
        ELSE SubSeq(chars, (CHOOSE k \in slashes : \A m \in slashes : m <= k) + 1, Len(chars))

\* s.split("?").shift(), s.split("?")[0]: what comes before the first "?".
BeforeQuery(chars) ==
    LET marks == { k \in 1..Len(chars) : chars[k] = "?" }
    IN  IF marks = {} THEN chars
        ELSE SubSeq(chars, 1, (CHOOSE k \in marks : \A m \in marks : k <= m) - 1)

\* #extractIdFromURL(idOrURL)
ExtractIdFromURL(chars) == BeforeQuery(LastSegment(StripSlashes(chars)))

\* /^[0-9]+$/.test(s)
URL_REGEX(chars) == chars # << >> /\ \A k \in 1..Len(chars) : chars[k] \in Digits

ENTITY_TYPES == <<"track", "album", "artist", "playlist">>

\* The characters of the names of the entity types.
TypeChars ==
    [track |-> <<"t", "r", "a", "c", "k">>, album |-> <<"a", "l", "b", "u", "m">>,
     artist |-> <<"a", "r", "t", "i", "s", "t">>,
     playlist |-> <<"p", "l", "a", "y", "l", "i", "s", "t">>]

\* ENTITY_TYPES.find(e => s.includes(e)) ?? "track"
FindType(chars) ==
    LET found == { n \in 1..Len(ENTITY_TYPES) : Includes(chars, TypeChars[ENTITY_TYPES[n]]) }
    IN  IF found = {} THEN "track"
        ELSE ENTITY_TYPES[CHOOSE n \in found : \A m \in found : n <= m]

\* ENTITY_TYPES.find(e => e === type.toLowerCase()) ?? "track"
TypeNamed(chars) ==
    LET found == { n \in 1..Len(ENTITY_TYPES) : TypeChars[ENTITY_TYPES[n]] = ToLowerCase(chars) }
    IN  IF found = {} THEN "track" ELSE ENTITY_TYPES[CHOOSE n \in found : TRUE]

\* #getEntityType(type, idOrURL) on the cache: it throws, or returns the
\* type, with the cache after it.
GetEntityType(cache, type, chars) ==
    IF Truthy(type)
    THEN IF type.tag # "string"
         THEN [threw |-> TRUE, type |-> "", cache |-> cache]
         ELSE [threw |-> FALSE, type |-> TypeNamed(type.chars), cache |-> cache]
    ELSE LET cacheKey == ToLowerCase(chars)
             foundType == FindType(StripSlashes(chars))
         IN  IF cacheKey \in DOMAIN cache
             THEN [threw |-> FALSE, type |-> cache[cacheKey], cache |-> cache]
             ELSE [threw |-> FALSE, type |-> foundType,
                   cache |-> [x \in DOMAIN cache \cup {cacheKey} |->
                                IF x = cacheKey THEN foundType ELSE cache[x]]]

\* get(idOrURL, type) up to its await: it throws, returns null, or calls
\* api with a type and an id. In the first variant the type that
\* #getEntityType returns is never empty, so the id is not extracted.
GetPrepare(cache, idOrURL, type, v) ==
    IF idOrURL.tag # "string"
    THEN [outcome |-> "threw", type |-> "", id |-> << >>, cache |-> cache]
    ELSE IF v = 1
    THEN LET t == GetEntityType(cache, type, idOrURL.chars)
         IN  IF t.threw
             THEN [outcome |-> "threw", type |-> "", id |-> << >>, cache |-> cache]
             ELSE [outcome |-> "api", type |-> t.type, id |-> idOrURL.chars, cache |-> t.cache]
    ELSE IF Truthy(type)
    THEN IF type.tag # "string"
         THEN [outcome |-> "threw", type |-> "", id |-> << >>, cache |-> cache]
         ELSE [outcome |-> "api", type |-> TypeNamed(type.chars), id |-> idOrURL.chars,
               cache |-> cache]
    ELSE LET clean == StripSlashes(idOrURL.chars)
             id == BeforeQuery(LastSegment(clean))
         IN  IF ~URL_REGEX(id)
             THEN [outcome |-> "null", type |-> "", id |-> << >>, cache |-> cache]
             ELSE [outcome |-> "api", type |-> FindType(ToLowerCase(clean)), id |-> id,
                   cache |-> cache]

\* The method of the catalogue request of get for an entity type.
MethodOf(type) ==
    CASE type = "track" -> "song.getListData"
      [] type = "album" -> "deezer.pageAlbum"
      [] type = "artist" -> "deezer.pageArtist"
      [] type = "playlist" -> "deezer.pagePlaylist"

\* The strings get is called with: the URL of the README, the same in
\* capitals, with slashes after it, a URL with a query, one whose last
\* segment is no number, and a bare id.
Site == <<"h", "t", "t", "p", "s", ":", "/", "/", "w", "w", "w", ".", "d", "e", "e", "z", "e", "r", ".", "c", "o", "m", "/", "e", "n", "/">>
AlbumURL == Site \o <<"a", "l", "b", "u", "m", "/", "3", "0", "2", "1", "2", "7">>
CapitalsURL == Site \o <<"A", "L", "B", "U", "M", "/", "3", "0", "2", "1", "2", "7">>
SlashesURL == AlbumURL \o <<"/", "/">>
QueryURL == Site \o <<"p", "l", "a", "y", "l", "i", "s", "t", "/", "9", "0", "8", "6", "2", "2", "9", "9", "5", "?", "u", "t", "m", "=", "1">>
NamedURL == Site \o <<"a", "r", "t", "i", "s", "t", "/", "d", "a", "f", "t", "-", "p", "u", "n", "k">>
BareId == <<"3", "1", "3", "5", "5", "5", "6">>

GetInputs ==
    { Text(AlbumURL), Text(CapitalsURL), Text(SlashesURL), Text(QueryURL),
      Text(NamedURL), Text(BareId), Num(1) }

\* The types get is called with: none, a name, a name in capitals, and a
\* value that is no string.
GetTypes == { Undefined, Text(<<"p", "l", "a", "y", "l", "i", "s", "t">>), Text(<<"A", "L", "B", "U", "M">>), Num(1) }

InitGet ==
    /\ variant \in {1, 2}
    /\ arl = Str("arl", 0)
    /\ now = StartOfTime
    /\ ticks = 0
    /\ currentSessionTimestamp = IF variant = 1 THEN Null ELSE Num(0)
    /\ sessionID = Null
    /\ apiToken = Null
    /\ isPremium = FALSE
    /\ licenseToken = Null
    /\ assignedBy = NeverAssigned
    /\ pc = [c \in Calls |-> "idle"]
    /\ sent = NoRequest
    /\ buffer = << >>
    /\ blowfishKey = << >>
    /\ decryptedBuffer = << >>
    /\ i = 0
    /\ position = 0
    /\ lpc = "none"
    /\ cipherLog = << >>
    /\ writes = << >>
    /\ original = << >>
    /\ PipelineIdle
    /\ EntityIdle

\* get(idOrURL, type) is called, when no other get call is under way, and
\* runs up to the await of api, or ends.
GetCall(idOrURL, type) ==
    /\ lookup.pc \in {"idle", "threw", "null", "returned"}
    /\ \E g \in {GetPrepare(entityTypeCache, idOrURL, type, variant)} :
          /\ entityTypeCache' = g.cache
          /\ lookup' = [pc |-> IF g.outcome = "api" THEN "awaitSession" ELSE g.outcome,
                        idOrURL |-> idOrURL, given |-> type,
                        type |-> g.type, id |-> g.id, requests |-> << >>]
    /\ UNCHANGED <<variant, instanceVars, cipherVars, pipelineVars>>

\* api resumes after #ensureSession: the session check has failed, or the
\* catalogue request is issued.
GetRequest(ok) ==
    /\ lookup.pc = "awaitSession"
    /\ lookup' = IF ok
                 THEN [lookup EXCEPT !.pc = "awaitApi",
                                     !.requests = Append(@, [method |-> MethodOf(lookup.type),
                                                             id |-> lookup.id])]
                 ELSE [lookup EXCEPT !.pc = "threw"]
    /\ UNCHANGED <<variant, instanceVars, cipherVars, pipelineVars, entityTypeCache>>

\* The catalogue request settles: get throws, returns null when the answer
\* has no info, or returns the entity.
GetResponse(outcome) ==
    /\ lookup.pc = "awaitApi"
    /\ lookup' = [lookup EXCEPT !.pc = outcome]
    /\ UNCHANGED <<variant, instanceVars, cipherVars, pipelineVars, entityTypeCache>>

NextGet ==
    \/ \E idOrURL \in GetInputs, type \in GetTypes : GetCall(idOrURL, type)
    \/ \E ok \in BOOLEAN : GetRequest(ok)
    \/ \E outcome \in {"threw", "null", "returned"} : GetResponse(outcome)

SpecGet == InitGet /\ [][NextGet]_vars

----------------------------------------------------------------------------
(* Properties of the cipher loop. *)

\* The number of chunks of the payload: ceil(length / 2048).
NumChunks == (Len(buffer) + chunkSize - 1) \div chunkSize

\* The bytes of chunk k of a buffer.
ChunkOf(buf, k) == Subarray(buf, chunkSize * k, chunkSize * (k + 1))

\* C8: chunk k is passed through the block cipher if and only if
\* k mod 3 = 0 and the chunk is a full 2048 bytes; the chunk index is
\* incremented exactly once per chunk, deciphered or not, and a final chunk
\* shorter than 2048 bytes is never deciphered.
C8_StripeSelection ==
    /\ i = Len(cipherLog)
    /\ \A n \in 1..Len(cipherLog) :
          /\ cipherLog[n].index = n - 1
          /\ cipherLog[n].size = Len(ChunkOf(buffer, n - 1))
          /\ cipherLog[n].ciphered
                <=> ((n - 1) % 3 = 0 /\ Len(ChunkOf(buffer, n - 1)) = chunkSize)
    /\ lpc = "returned" => Len(cipherLog) = NumChunks

\* The loop has run on three full chunks and a final chunk of one byte,
\* whose index is a multiple of 3: the first was deciphered, the last not.
C8_Witness ==
    /\ lpc = "returned"
    /\ Len(buffer) = 3 * chunkSize + 1
    /\ Len(cipherLog) = 4
    /\ cipherLog[1].ciphered
    /\ ~cipherLog[4].ciphered

\* C9: at every iteration position = 2048 * i; output chunk k is written at
\* the byte offset of input chunk k; every byte of the output is written
\* exactly once; the returned buffer is as long as the payload.
C9_PositionPreserving ==
    /\ (lpc = "loop" /\ position < Len(buffer)) => position = chunkSize * i
    /\ lpc \in {"loop", "returned"} =>
          /\ Len(decryptedBuffer) = Len(buffer)
          /\ \A p \in 1..Len(writes) : writes[p] = IF p <= position THEN 1 ELSE 0
    /\ lpc = "returned" => \A p \in 1..Len(writes) : writes[p] = 1
    /\ \A n \in 1..Len(cipherLog) :
          /\ cipherLog[n].offset = chunkSize * (n - 1)
          /\ ChunkOf(decryptedBuffer, n - 1) =
                IF cipherLog[n].ciphered
                THEN BlowfishCbc(blowfishKey, iv, ChunkOf(buffer, n - 1))
                ELSE ChunkOf(buffer, n - 1)

\* The loop has returned the output of a payload of four full chunks and a
\* final chunk of 2047 bytes.
C9_Witness ==
    /\ lpc = "returned"
    /\ Len(buffer) = 4 * chunkSize + chunkSize - 1
    /\ Len(decryptedBuffer) = Len(buffer)
    /\ position = Len(buffer)
    /\ i = 5

\* C10: every chunk that is not deciphered is in the output byte for byte
\* as in the input, at the same offset; a payload shorter than 2048 bytes
\* is returned unchanged and the block cipher is not invoked for it.
C10_PlainChunksUnchanged ==
    /\ \A n \in 1..Len(cipherLog) :
          ~cipherLog[n].ciphered =>
              \A p \in (cipherLog[n].offset + 1)..(cipherLog[n].offset + cipherLog[n].size) :
                  decryptedBuffer[p] = buffer[p]
    /\ (lpc = "returned" /\ Len(buffer) < chunkSize) =>
          /\ decryptedBuffer = buffer
          /\ \A n \in 1..Len(cipherLog) : ~cipherLog[n].ciphered

\* C11: for every byte buffer B and key K, the stripe decryption of
\* encrypt(B, K) yields B.
C11_RoundTrip == lpc = "returned" => decryptedBuffer = original

\* The loop has returned the decryption of a payload of five chunks that
\* differs from the bytes it was enciphered from.
C11_Witness ==
    /\ lpc = "returned"
    /\ Len(original) = 4 * chunkSize + 1
    /\ buffer # original
    /\ decryptedBuffer = original
    /\ cipherLog[1].ciphered /\ cipherLog[4].ciphered

\* The loop has returned a payload of 2047 bytes as it was, and one whose
\* second and third chunk it copied.
C10_Witness ==
    /\ lpc = "returned"
    /\ \/ Len(buffer) = chunkSize - 1 /\ decryptedBuffer = buffer /\ Len(cipherLog) = 1
       \/ Len(buffer) = 3 * chunkSize /\ ~cipherLog[2].ciphered /\ ~cipherLog[3].ciphered

----------------------------------------------------------------------------
(* Properties of the session cache. *)

\* No field of the session was ever assigned by an exchange.
SessionAbsent == assignedBy = NeverAssigned

\* Every field of the session is populated and comes from the exchange of
\* one and the same call.
SessionComplete ==
    /\ \E e \in Calls : \A f \in DOMAIN assignedBy : assignedBy[f] = e
    /\ currentSessionTimestamp.tag = "number"
    /\ IsDefined(sessionID)
    /\ IsDefined(apiToken)
    /\ IsDefined(licenseToken)

\* An issuedAt timestamp is stored.
SessionExists == assignedBy.currentSessionTimestamp # 0

\* The session is missing or stale: now - issuedAt >= TTL.
SessionStale ==
    ~SessionExists \/ now - currentSessionTimestamp.n >= SESSION_EXPIRE

\* C1: session refresh is single-flight: when several calls observe a
\* missing or stale session before any exchange has completed, one
\* deezer.getUserData request is in flight and the others wait for it.
C1_SingleFlight == Cardinality({c \in Calls : pc[c] = "awaitUserData"}) <= 1

\* C2: in every reachable state the stored session is either entirely
\* absent, or all of its fields are populated and come from one exchange.
C2_AbsentOrComplete == SessionAbsent \/ SessionComplete

\* C3: when #ensureSession fails, every session field, the issuedAt
\* timestamp included, is left as it was before the call.
C3_FailureKeepsSession ==
    [][\A c \in Calls :
         (pc[c] = "awaitUserData" /\ pc'[c] = "threw")
            => UNCHANGED <<sessionVars, assignedBy>>]_vars

\* C4: #ensureSession never completes successfully leaving a session whose
\* sessionID or licenseToken is undefined.
C4_SuccessHasIdAndLicense ==
    [][\A c \in Calls :
         (pc[c] = "awaitUserData" /\ pc'[c] = "ensured")
            => IsDefined(sessionID') /\ IsDefined(licenseToken')]_vars

C6_NoArlNotPremium ==
    (arl = Null /\ SessionComplete) => isPremium = FALSE

\* C7: every catalogue request api issues carries the sessionID and the
\* apiToken stored at that moment, both defined and both from the same
\* exchange, and none is issued while the session is absent.
C7_RequestCarriesSession ==
    [][\A c \in Calls :
         (pc[c] \in {"fresh", "ensured"} /\ pc'[c] = "awaitApi")
            => /\ sent'.sid = sessionID
               /\ sent'.api_token = apiToken
               /\ IsDefined(sessionID)
               /\ IsDefined(apiToken)
               /\ assignedBy.sessionID = assignedBy.apiToken
               /\ ~SessionAbsent]_vars

----------------------------------------------------------------------------
(* Properties of the getAndDecryptTrack pipeline. *)

\* A size field that is present and not zero.
NonZeroSize(v) == v.tag = "number" /\ v.n # 0

\* The call has run the stage.
Ran(stage) == job.pc # "idle" /\ \E k \in 1..Len(job.stages) : job.stages[k] = stage

\* The positions of the requests of a type among the requests of the call.
RequestsOf(type) == { k \in 1..Len(job.requests) : job.requests[k].type = type }

\* The lossy formats, highest bitrate first.
LossyOrder == <<"MP3_320", "MP3_256", "MP3_128", "MP3_64">>

\* C12: without lossless, the call selects the first format in the order
\* MP3_320, MP3_256, MP3_128, MP3_64 whose size on the resolved track is
\* non-zero, and fails with 'audio unavailable', without a licensing
\* request, when none of the four is non-zero.
C12_FirstNonZeroLossy ==
    (Ran("resolve") /\ ~job.flac) =>
        LET usable == { k \in 1..Len(LossyOrder) :
                          NonZeroSize(FileSizeOf(job.resolved, LossyOrder[k])) }
        IN  IF usable = {}
            THEN /\ job.pc = "threw"
                 /\ job.error = Thrown("resolve", "Audio is unavailable")
                 /\ RequestsOf("get_url") = {}
            ELSE /\ RequestsOf("get_url") # {}
                 /\ \A q \in RequestsOf("get_url") :
                       \E k \in usable :
                           /\ \A j \in usable : k <= j
                           /\ job.requests[q].format = LossyOrder[k]

\* The call has asked for MP3_256 of a track without MP3_320 that has
\* MP3_256 and MP3_128.
C12_Witness ==
    /\ Ran("resolve") /\ ~job.flac /\ job.resolved = Mp3Track
    /\ job.pc = "awaitUrl"
    /\ job.requests[Len(job.requests)].format = "MP3_256"

\* C13: a call with lossless on a session that is not privileged fails with
\* the entitlement error, and no request of the call (authentication
\* exchange, licensing request, payload fetch) precedes the failure.
C13_EntitlementBeforeNetwork ==
    /\ (Ran("resolve") /\ job.flac /\ ~isPremium) =>
          job.error = Thrown("resolve", "FLAC is only supported on Deezer Premium accounts")
    /\ job.pc # "idle" =>
          (job.error = Thrown("resolve", "FLAC is only supported on Deezer Premium accounts")
             => job.requests = << >>)

\* All formats a licensing request can name.
AllFormats == {"MP3_320", "MP3_256", "MP3_128", "MP3_64", "FLAC"}

\* The licensing requests of the call name one format each, of non-zero
\* size on the resolved track, and there is at most one of them.
OneAvailableFormat ==
    /\ Cardinality(RequestsOf("get_url")) <= 1
    /\ \A q \in RequestsOf("get_url") :
          /\ job.requests[q].format \in AllFormats
          /\ NonZeroSize(FileSizeOf(job.resolved, job.requests[q].format))

\* C14, as stated: every licensing request names exactly one format, whose
\* size on the resolved track is non-zero; with lossless requested and
\* FILESIZE_FLAC zero or absent the call fails with the unavailable-format
\* error and issues no licensing request.
C14_Original ==
    job.pc # "idle" =>
        /\ OneAvailableFormat
        /\ (Ran("resolve") /\ job.flac /\ ~NonZeroSize(job.resolved.FILESIZE_FLAC)) =>
              /\ job.error = Thrown("resolve", "FLAC audio is unavailable")
              /\ RequestsOf("get_url") = {}

\* C14, amended: as stated, but with lossless requested and FILESIZE_FLAC
\* zero or absent the call fails with the unavailable-format error on a
\* privileged session and with the entitlement error on any other, and
\* issues no licensing request.
C14_OneAvailableFormat ==
    job.pc # "idle" =>
        /\ OneAvailableFormat
        /\ (Ran("resolve") /\ job.flac /\ ~NonZeroSize(job.resolved.FILESIZE_FLAC)) =>
              /\ job.error =
                    IF isPremium
                    THEN Thrown("resolve", "FLAC audio is unavailable")
                    ELSE Thrown("resolve", "FLAC is only supported on Deezer Premium accounts")
              /\ RequestsOf("get_url") = {}

\* A call with lossless on a privileged session has failed for a track
\* without FLAC, and has issued no licensing request.
C14_Witness ==
    /\ Ran("resolve") /\ job.flac /\ isPremium
    /\ job.resolved = Mp3Track
    /\ job.error = Thrown("resolve", "FLAC audio is unavailable")
    /\ RequestsOf("get_url") = {}

\* The track reports no size for any format.
AllSizesZero(t) == \A f \in AllFormats : ~NonZeroSize(FileSizeOf(t, f))

\* C15: the fallback takes the place of the primary track if and only if
\* the primary reports zero size for every format, lossy and lossless, and
\* carries a fallback.
C15_FallbackIffAllZero ==
    Ran("resolve") =>
        IF AllSizesZero(job.track) /\ IsObject(job.track.FALLBACK)
        THEN job.resolved = job.track.FALLBACK
        ELSE job.resolved = job.track

\* C16: the resolved track is the primary or its immediate fallback, never
\* a deeper one; the sizes behind the format, the track token of the
\* licensing request and the id of the key derivation are those of the
\* resolved track.
C16_OneResolvedTrack ==
    Ran("resolve") =>
        /\ job.resolved \in {job.track, job.track.FALLBACK}
        /\ IsObject(job.resolved)
        /\ \A q \in RequestsOf("get_url") :
              /\ job.requests[q].track_token = job.resolved.TRACK_TOKEN
              /\ NonZeroSize(FileSizeOf(job.resolved, job.requests[q].format))
        /\ job.keyOf \subseteq {job.resolved.SNG_ID}
        /\ job.pc \in {"decrypting", "returned"} =>
              /\ job.keyOf = {job.resolved.SNG_ID}
              /\ blowfishKey = DeriveKey(job.resolved.SNG_ID)

\* A call for a track whose fallback carries a fallback itself has returned
\* on the immediate fallback.
C16_Witness ==
    /\ job.pc = "returned"
    /\ job.track = ChainTrack
    /\ job.resolved = NoFilesizeTrack
    /\ job.keyOf = {NoFilesizeTrack.SNG_ID}
    /\ IsObject(job.resolved.FALLBACK)

\* The licensing response holds a source URL.
HasSourceUrl(data) == IsObject(data) /\ data.url.tag = "string"

\* C17: when the licensing response holds no usable source URL the call
\* fails with an error that carries the upstream message, or 'Unknown
\* error' when there is none, and fetches no payload, derives no key and
\* decrypts nothing.
C17_NoUrlNoFetch ==
    (job.pc # "idle" /\ job.answer.got /\ ~HasSourceUrl(job.answer.data)) =>
        /\ job.pc = "threw"
        /\ job.error.stage = "source"
        /\ job.error.message =
              IF IsObject(job.answer.data) /\ job.answer.data.message.tag = "string"
              THEN job.answer.data.message.s
              ELSE "Unknown error"
        /\ RequestsOf("fetch") = {}
        /\ job.keyOf = {}
        /\ \A x \in TrackIds : derived[x] = 0
        /\ blowfishKeyCache = EmptyCache
        /\ lpc = "none"
        /\ job.result = << >>

\* The call has failed on a licensing response without URL and with an
\* upstream message.
C17_Witness ==
    /\ job.pc = "threw"
    /\ job.answer.got
    /\ IsObject(job.answer.data)
    /\ ~HasSourceUrl(job.answer.data)
    /\ job.error = Thrown("source", "upstream message")

\* The stages of a call, in their order.
StageOrder == <<"session", "resolve", "fetch", "key", "decrypt">>

\* The types of the requests of a call, in their order; the first only on
\* a missing or stale session.
RequestOrder == <<"getUserData", "get_url", "fetch">>

IsPrefix(a, b) == Len(a) <= Len(b) /\ \A k \in 1..Len(a) : a[k] = b[k]

\* The requests of the call come in the fixed order.
RequestsInOrder ==
    \/ IsPrefix([k \in 1..Len(job.requests) |-> job.requests[k].type], RequestOrder)
    \/ IsPrefix([k \in 1..Len(job.requests) |-> job.requests[k].type], Tail(RequestOrder))

\* The stages of the call so far are in order, an error has ended it, and a
\* buffer is returned only after all stages, whole.
StagesInOrder ==
    job.pc # "idle" =>
        /\ IsPrefix(job.stages, StageOrder)
        /\ RequestsInOrder
        /\ (job.error # NoError) <=> (job.pc = "threw")
        /\ job.pc # "returned" => job.result = << >>
        /\ job.pc = "returned" =>
              /\ job.stages = StageOrder
              /\ lpc = "returned"
              /\ ~(position < Len(buffer))
              /\ job.result = decryptedBuffer
              /\ Len(job.result) = Len(buffer)
              /\ \A p \in 1..Len(writes) : writes[p] = 1

\* C18: the call runs its stages in the order session check, format
\* resolution and licensing request, payload fetch, key derivation,
\* decryption; once a stage has failed no later stage runs and the call
\* has ended in an error; a buffer is returned only when every stage
\* succeeded, never a partially decrypted one.
C18_StagesInOrder ==
    /\ []StagesInOrder
    /\ [][(job.pc = "threw" \/ job.pc = "returned") => UNCHANGED vars]_vars

\* The call has returned the decrypted payload of two chunks after all
\* five stages.
C18_Witness ==
    /\ job.pc = "returned"
    /\ job.stages = StageOrder
    /\ Len(job.result) = chunkSize + 1
    /\ job.result # buffer

----------------------------------------------------------------------------
(* Properties of concurrent calls and of the key cache. *)

\* The buffers the calls return when run alone, by variant, track id and
\* payload.
AloneResults ==
    [v \in {1, 2} |-> [x \in KeyIds |-> [seed \in Seeds |->
        StripeDecrypt(JobPayload(seed), DeriveKey(x), v)]]]

\* C19: concurrent getAndDecryptTrack calls do not interfere: in any
\* interleaving, for any tracks and payloads, the buffer a call returns is
\* the buffer the same call returns when run alone on the same payload.
C19_NoInterference ==
    \A c \in Calls :
        jobs[c].pc = "returned" =>
            jobs[c].result = AloneResults[variant][jobs[c].id][jobs[c].seed]

\* Two calls for different tracks and payloads, the second of which has
\* fetched its payload while the first awaited its own, have both returned.
C19_Witness ==
    \E c, d \in Calls :
        /\ jobs[c].pc = "returned" /\ jobs[d].pc = "returned"
        /\ jobs[c].id # jobs[d].id
        /\ jobs[c].seed # jobs[d].seed
        /\ jobs[c].key # jobs[d].key
        /\ jobs[c].result # jobs[d].result

\* C20: every entry of the key cache maps a track id to the key derived
\* from that id; a repeated derivation for an id returns the cached key
\* and computes nothing; the key a call gets for an id does not depend on
\* the ids derived before.
C20_MemoizedTransparently ==
    /\ \A x \in DOMAIN blowfishKeyCache : blowfishKeyCache[x] = DeriveKey(x)
    /\ \A x \in TrackIds : derived[x] <= 1
    /\ \A c \in Calls :
          jobs[c].pc \in {"decrypting", "returned"} => jobs[c].key = DeriveKey(jobs[c].id)

----------------------------------------------------------------------------
(* Further properties of the cipher loop. *)

\* Bytes unlike those of the payloads of the loop, to put before a chunk.
OtherChunks(n) == Payload(chunkSize * n, 7)

\* The indexes at which the chunk of another payload is deciphered.
OtherIndexes == {0, 3}

\* C22: each deciphered chunk is decrypted with the vector 00 01 .. 07, set
\* anew for the chunk: output chunk k depends on the key and on input chunk
\* k alone. A payload that has the same chunk after other chunks, or after
\* another number of them, gives the same output chunk for it.
C22_ChunkAlone ==
    \A n \in 1..Len(cipherLog) :
        cipherLog[n].ciphered =>
            \A out \in {ChunkOf(decryptedBuffer, n - 1)} :
                /\ out = BlowfishCbc(blowfishKey, <<0, 1, 2, 3, 4, 5, 6, 7>>,
                                     ChunkOf(buffer, n - 1))
                /\ lpc = "returned" =>
                      \A k \in OtherIndexes :
                      \A other \in {OtherChunks(k) \o ChunkOf(buffer, n - 1)} :
                          ChunkOf(StripeDecrypt(other, blowfishKey, variant), k) = out

\* The loop has returned the output of four full chunks, the fourth
\* deciphered, and the three chunks before it are unlike the other ones.
C22_Witness ==
    /\ lpc = "returned"
    /\ Len(buffer) = 4 * chunkSize
    /\ cipherLog[4].ciphered
    /\ ChunkOf(decryptedBuffer, 3) # ChunkOf(buffer, 3)
    /\ Subarray(buffer, 0, 3 * chunkSize) # OtherChunks(3)

\* C25: the loop ends for every payload: the position grows with every
\* iteration, and the loop returns after exactly ceil(L / 2048) iterations
\* for a payload of L bytes, none for an empty payload.
C25_LoopTerminates ==
    /\ <>(lpc = "returned")
    /\ [][(lpc = "loop" /\ lpc' = "loop") =>
            (position' > position /\ i' = i + 1 /\ position' <= Len(buffer))]_vars
    /\ [](lpc = "returned" =>
            /\ i = NumChunks
            /\ position = Len(buffer)
            /\ (Len(buffer) = 0 => i = 0))

\* The loop has returned after five iterations on a payload of four full
\* chunks and one byte.
C25_Witness ==
    /\ lpc = "returned"
    /\ Len(buffer) = 4 * chunkSize + 1
    /\ i = 5
    /\ Len(cipherLog) = 5
    /\ position = 4 * chunkSize + 1

----------------------------------------------------------------------------
(* Properties of the key derivation. *)

\* The character codes of the lowercase hexadecimal digits.
HexCodes == (48..57) \cup (97..102)

\* The number of bytes of the UTF-8 encoding of a string of character codes.
RECURSIVE Utf8Length(_)
Utf8Length(chars) ==
    IF chars = << >> THEN 0
    ELSE (IF Head(chars) < 128 THEN 1 ELSE IF Head(chars) < 2048 THEN 2 ELSE 3)
         + Utf8Length(Tail(chars))

\* C24: the key of every track id is 16 bytes, byte j the exclusive or of
\* the codes of digest[j], digest[j + 16] and secret[j], where the digest
\* is 32 lowercase hexadecimal digits and the secret is g4el58wc0zvf9na1;
\* every byte lies in 0..127 and the key string encodes to 16 bytes.
C24_KeyBytes ==
    job.pc = "derived" =>
        \A digest \in {Md5Hex(job.id)} :
            /\ Len(digest) = 32
            /\ \A j \in 1..32 : digest[j] \in HexCodes
            /\ Len(blowfishKey) = 16
            /\ \A j \in 1..16 :
                  /\ blowfishKey[j] = Xor(Xor(digest[j], digest[j + 16]), CBC_KEY[j])
                  /\ blowfishKey[j] \in 0..127
            /\ Utf8Length(blowfishKey) = 16

\* The key of a track id has been derived a second time, and one of its
\* bytes has the bit of 64 set by a digit and a letter of the digest.
C24_Witness ==
    /\ job.pc = "derived"
    /\ job.n = 2
    /\ derived[job.id] = IF variant = 1 THEN 1 ELSE 2
    /\ \E j \in 1..16 : Xor(Md5Hex(job.id)[j], Md5Hex(job.id)[j + 16]) >= 64
    /\ \E j \in 1..16 : blowfishKey[j] >= 96

----------------------------------------------------------------------------
(* Further properties of one getAndDecryptTrack call. *)

\* C23: nothing is retried: the #ensureSession of the call issues at most
\* one authentication exchange, and the call at most one authentication
\* exchange, one licensing request and one payload fetch, whether they
\* succeed or fail: a failure issues no request.
C23_NothingRetried ==
    /\ [](job.pc # "idle" =>
            /\ \A type \in {"getUserData", "get_url", "fetch"} :
                  Cardinality(RequestsOf(type)) <= 1
            /\ Len(job.requests) <= 3)
    /\ [][job'.pc = "threw" =>
            job'.requests = IF job.pc = "idle" THEN << >> ELSE job.requests]_vars

\* The call has issued the three requests once each, and has ended with the
\* failure of the payload fetch.
C23_Witness ==
    /\ job.pc = "threw"
    /\ job.error.stage = "fetch"
    /\ [k \in 1..Len(job.requests) |-> job.requests[k].type] = RequestOrder

----------------------------------------------------------------------------
(* Properties of get. *)

\* The last get call was given a string and no type.
Typeless == lookup.pc # "idle" /\ lookup.idOrURL.tag = "string" /\ ~Truthy(lookup.given)

\* C21: a get with a URL and no type infers the type from the URL, and its
\* catalogue request carries the id of the last path segment, all digits,
\* with the slashes at the end and the query removed; a typeless get whose
\* id is not all digits issues no catalogue request and returns null.
C21_TypelessGet ==
    Typeless =>
        \A id \in {ExtractIdFromURL(lookup.idOrURL.chars)} :
            /\ \A k \in 1..Len(lookup.requests) :
                  /\ lookup.requests[k].id = id
                  /\ URL_REGEX(lookup.requests[k].id)
                  /\ lookup.requests[k].method \in { MethodOf(ENTITY_TYPES[n]) : n \in 1..4 }
                  /\ lookup.idOrURL.chars = ToLowerCase(lookup.idOrURL.chars) =>
                        lookup.requests[k].method =
                            MethodOf(FindType(StripSlashes(lookup.idOrURL.chars)))
            /\ ~URL_REGEX(id) => (lookup.pc = "null" /\ lookup.requests = << >>)

\* C26: the type a typeless get takes from the entity-type cache is the
\* type a fresh inference on the same string gives, whatever was looked up
\* before.
C26_CacheTransparent ==
    (variant = 1 /\ Typeless) =>
        lookup.type = GetEntityType(EmptyCache, Undefined, lookup.idOrURL.chars).type
====
